---------------------------- MODULE Spec2Model ----------------------------
(***************************************************************************)
(* The dispatch portal of src/test.js: the React component App, its        *)
(* handleDispatch loop, the pause / cancel handlers and the start effect.  *)
(*                                                                         *)
(* React state is modelled twice, as React keeps it: the live value that   *)
(* the setters write, and the value captured by the closures of the last   *)
(* committed render (rendered).  A handler invoked by a click or by the    *)
(* effect is the closure of the last commit; a running handleDispatch      *)
(* keeps the closure it was invoked with (the c-fields of its record).     *)
(* Refs (abortControllerRef, progressRef) are read live.                   *)
(*                                                                         *)
(* Every action is one run-to-completion step of JavaScript: an event      *)
(* handler, a commit, an effect flush, or the continuation of one await.   *)
(* No assumption is made on the relative speed of React's scheduler, the   *)
(* network and the timers.                                                 *)
(*                                                                         *)
(* The other programs of the repository are modelled in sections of their  *)
(* own, each with its variable and its specification: TokenCallback        *)
(* (src/src/TokenCallback.js), the dispatch page of src/test2.js, and      *)
(* processMessagesWithRetry and LoginForm of src/test3.js.                 *)
(***************************************************************************)
EXTENDS Integers, Sequences, FiniteSets

\* ---- bounds of the model ------------------------------------------------
NumItems == 2
\* sendMessage calls explored, and handleDispatch invocations in progress at a
\* time, under Spec
MaxSends == 5
MaxLoops == 1
\* the same two under SpecOverlap, which explores overlapping invocations
MaxOverlapSends == 1
MaxOverlapLoops == 2
\* the greatest attempt index calculateDelay is applied to under SpecDelay
MaxAttemptIndex == 12
\* sendMessage calls explored under SpecPause
MaxPauseSends == 1
\* runs of TokenCallback's effect explored for one login
MaxChains == 2
\* the longest message list explored for the work queue of handleDispatch
MaxQueueLen == 6
\* src/test2.js: the longest message list explored (SpecPass), the length of the
\* list under SpecPage, and the handleDispatch invocations in progress at a time
MaxListLen == 11
PageListLen == 1
MaxRuns == 2
PassRuns == 1
\* the number of addLog calls explored
MaxLogCalls == 103
\* the longest message list given to processMessagesWithRetry of src/test3.js
MaxFanLen == 7
\* the number of session verification requests of LoginForm in flight at once
MaxVerifyInFlight == 3

\* ---- RATE_LIMIT_CONFIG (src/test.js:6-13) -------------------------------
BASE_DELAY_MS == 1500
MAX_RETRY_ATTEMPTS == 3
BATCH_SIZE == 5
RETRY_EXPONENTIAL_BACKOFF == TRUE
MAX_RETRY_DELAY_MS == 30000

Items == 1..NumItems
LoopIds == 1..MaxOverlapLoops

\* the message list the batch endpoint returns for the job, in order
Messages == [k \in 1..NumItems |-> k]

VARIABLES
  dispatching,        \* useState(false)
  paused,             \* useState(false)
  error,              \* useState("")
  progress,           \* useState({current,total,success,failed,rateLimited}) = progressRef
  retryCounts,        \* useState({}) ; 0 stands for an absent key
  processedMessages,  \* useState(new Set())
  dispatchInitiated,  \* useState(false)
  rendered,           \* the state captured by the closures of the last commit
  effectPending,      \* the start effect of the last commit has not run yet
  mounted,            \* the effect has run at least once since the page load
  objDirty,           \* a Set / object state was replaced since the last commit
  ctrlAborted,        \* abortControllerRef.current.signal.aborted
  sessionStatus,      \* sessionStorage dispatch_status_<dmsg_id>
  startParam,         \* the start_dispatch parameter of the URL
  loops,              \* the handleDispatch invocations in progress
  analytics,          \* sessionStorage dispatch_analytics_<dmsg_id>
  calc,               \* a call of calculateDelay: configuration, argument, result
  recorded,           \* history: ids ever added to processedMessages
  sendCount,          \* history: the number of sendMessage calls made so far
  tok,                \* the TokenCallback component of src/src/TokenCallback.js
  work,               \* the work queue of one handleDispatch run over a long list
  app2,               \* the dispatch page of src/test2.js
  logs,               \* useState([]): the log of src/test.js (addLog)
  fan,                \* a run of processMessagesWithRetry of src/test3.js
  form                \* the LoginForm of src/test3.js and its localStorage

\* the state of the programs other than the dispatch portal of src/test.js
auxVars == <<logs, fan, form>>

extVars == <<tok, work, app2, auxVars>>

appVars == <<dispatching, paused, error, progress, retryCounts, processedMessages,
             dispatchInitiated, rendered, effectPending, mounted, objDirty, ctrlAborted,
             sessionStatus, startParam, loops, analytics, recorded, sendCount>>

\* the dispatch portal and calculateDelay
portalVars == <<appVars, calc>>

vars == <<dispatching, paused, error, progress, retryCounts, processedMessages,
          dispatchInitiated, rendered, effectPending, mounted, objDirty, ctrlAborted,
          sessionStatus, startParam, loops, analytics, calc, recorded, sendCount,
          extVars>>

\* ---- helpers -------------------------------------------------------------
Range(s) == {s[k] : k \in 1..Len(s)}

Min(a, b) == IF a < b THEN a ELSE b

\* Math.pow(2, n) for n >= 0
RECURSIVE Pow2(_)

Pow2(n) == IF n <= 0 THEN 1 ELSE 2 * Pow2(n - 1)

\* x * Math.pow(2, a); for a < 0 the quotient, exact for the a = -1 the loop passes
Scale(x, a) == IF a >= 0 THEN x * Pow2(a) ELSE x \div Pow2(0 - a)

\* a variant of calculateDelay without the Math.min cap
CalculateDelayUncapped(exponential, attempt) ==
  IF ~exponential THEN BASE_DELAY_MS ELSE Scale(BASE_DELAY_MS, attempt)

\* calculateDelay under a configuration whose RETRY_EXPONENTIAL_BACKOFF is exponential
CalculateDelayWith(exponential, attempt) ==
  IF ~exponential
  THEN BASE_DELAY_MS
  ELSE Min(Scale(BASE_DELAY_MS, attempt), MAX_RETRY_DELAY_MS)

\* calculateDelay as the page is configured
calculateDelay(attempt) == CalculateDelayWith(RETRY_EXPONENTIAL_BACKOFF, attempt)

\* no call of calculateDelay observed
NoCall == [exponential |-> RETRY_EXPONENTIAL_BACKOFF, attempt |-> 0, called |-> FALSE,
           of |-> 0, delay |-> 0]

AttemptIndices == 0..MaxAttemptIndex

\* Array.prototype.slice(0, n) and slice(n)
SliceTo(s, n) == SubSeq(s, 1, Min(n, Len(s)))

SliceFrom(s, n) == SubSeq(s, Min(n, Len(s)) + 1, Len(s))

ZeroProgress == [current |-> 0, total |-> 0, success |-> 0, failed |-> 0, rateLimited |-> 0]

NoCounts == [i \in Items |-> 0]

\* dispatch_analytics_<dmsg_id> is absent
NoAnalytics == [written |-> FALSE, success |-> 0, failed |-> 0]

NoReport == [status |-> 0, dispatch_count |-> 0, attempts |-> 0]

\* the values a render captures for handleDispatch, handlePauseResume and the effect
Snapshot == [dispatching |-> dispatching, paused |-> paused,
             processedMessages |-> processedMessages, retryCounts |-> retryCounts,
             dispatchInitiated |-> dispatchInitiated]

InitialSnapshot == [dispatching |-> FALSE, paused |-> FALSE,
                    processedMessages |-> {}, retryCounts |-> NoCounts,
                    dispatchInitiated |-> FALSE]

IdleLoop == [pc |-> "idle", cPaused |-> FALSE, cRetry |-> NoCounts, cProcessed |-> {},
             remaining |-> <<>>, batch |-> <<>>, idx |-> 0, attempt |-> 0,
             delay |-> 0, sig |-> FALSE, rep |-> NoReport, sent |-> NoCounts,
             cancelled |-> FALSE, pausedSeen |-> FALSE, waitCancelled |-> FALSE,
             succeeded |-> {}, batches |-> NoCounts, syncFailed |-> FALSE]

Active(L) == L.pc # "idle"

FreeSlots(n) == {l \in 1..n : ~Active(loops[l])}

FirstFree(n) == CHOOSE l \in FreeSlots(n) : \A m \in FreeSlots(n) : l <= m

SumCounts(rc) == LET S[k \in 0..NumItems] == IF k = 0 THEN 0 ELSE S[k - 1] + rc[k] IN S[NumItems]

\* ---- updateDispatchStatus (the request it sends) --------------------------
\* processedMessages and retryCounts are the closure's; progressRef is live.
UpdateDispatchStatus(L, pg, forceComplete) ==
  LET uniqueProcessed == Cardinality(L.cProcessed)
      totalAttempts == SumCounts(L.cRetry)
      isComplete == \/ forceComplete
                    \/ (uniqueProcessed >= pg.total /\ pg.failed = 0)
                    \/ (pg.failed > 0 /\ uniqueProcessed + pg.failed >= pg.total)
  IN [status |-> IF isComplete THEN 2 ELSE 1,
      dispatch_count |-> uniqueProcessed, attempts |-> totalAttempts]

\* ---- the synchronous stretches of handleDispatch --------------------------
\* Each operator runs the code from one point to the next await and returns
\* the invocation's record and the retryCounts state.  ab is
\* abortControllerRef.current.signal.aborted, read live.

\* the finally block: the invocation is over
Finally(L) == IdleLoop

\* after the while loop: the final report, unless the signal is aborted
AfterLoop(L, pg, ab) ==
  IF ~ab
  THEN [L EXCEPT !.pc = "final", !.sig = FALSE, !.batch = <<>>, !.idx = 0, !.delay = 0,
                 !.rep = UpdateDispatchStatus(L, pg, TRUE)]
  ELSE Finally(L)

\* the least index >= from of the batch that the for loop does not skip, or 0
FirstSendable(L, from, ab) ==
  LET ks == {k \in from..Len(L.batch) : ~(L.batch[k] \in L.cProcessed \/ ab)}
  IN IF ks = {} THEN 0 ELSE CHOOSE k \in ks : \A m \in ks : k <= m

RECURSIVE LoopHead(_, _, _, _)

\* after the for loop: the periodic report on every third batch, then attempt++
AfterBatch(L, rc, pg, ab) ==
  IF L.attempt % 3 = 0 /\ ~ab
  THEN [loop |-> [L EXCEPT !.pc = "sync", !.sig = FALSE, !.batch = <<>>, !.idx = 0, !.delay = 0,
                           !.rep = UpdateDispatchStatus(L, pg, FALSE)],
        rc |-> rc]
  ELSE LoopHead([L EXCEPT !.attempt = @ + 1, !.batch = <<>>, !.idx = 0, !.delay = 0],
                rc, pg, ab)

\* the for loop from index from: the next message that is not skipped starts its
\* delay, calculateDelay(retryCount - 1) with the closure's retryCount
ForItem(L, from, rc, pg, ab) ==
  LET k == FirstSendable(L, from, ab)
  IN IF k = 0
     THEN AfterBatch(L, rc, pg, ab)
     ELSE [loop |-> [L EXCEPT !.pc = "delay", !.sig = FALSE, !.idx = k,
                              !.delay = calculateDelay(L.cRetry[L.batch[k]] - 1)],
           rc |-> rc]

\* the while condition, the pause test, the slicing of the next batch
LoopHead(L, rc, pg, ab) ==
  IF L.remaining # <<>> /\ ~ab
  THEN IF L.cPaused
       THEN [loop |-> [L EXCEPT !.pc = "pausewait"], rc |-> rc]
       ELSE LET batchToProcess == SliceTo(L.remaining, BATCH_SIZE)
                L1 == [L EXCEPT !.batch = batchToProcess,
                                !.remaining = SliceFrom(L.remaining, BATCH_SIZE),
                                !.batches = [i \in Items |->
                                               IF i \in Range(batchToProcess)
                                               THEN @[i] + 1 ELSE @[i]]]
                rc1 == [i \in Items |-> IF i \in Range(batchToProcess) THEN rc[i] + 1 ELSE rc[i]]
            IN ForItem(L1, 1, rc1, pg, ab)
  ELSE [loop |-> AfterLoop(L, pg, ab), rc |-> rc]

\* ---- AbortController ------------------------------------------------------
\* abort() of the current controller rejects every pending delay and every
\* pending status request registered on its signal.  fetchDispatchBatch and
\* sendMessage (src/unnamed/part_001, part_002) take no signal: they run on.
AbortListeners(ls) ==
  [l \in LoopIds |-> IF ls[l].pc \in {"delay", "sync", "final"}
                     THEN [ls[l] EXCEPT !.sig = TRUE] ELSE ls[l]]

\* ---- handleDispatch: guard and synchronous prefix --------------------------
\* R is the closure of the render the callback belongs to.
Rejects(R) == R.dispatching \/ R.processedMessages # {}

NewLoop(R) ==
  [IdleLoop EXCEPT !.pc = "fetch", !.cPaused = R.paused, !.cRetry = R.retryCounts,
                   !.cProcessed = R.processedMessages]

\* an accepted invocation, up to the await of fetchDispatchBatch; base is the
\* table of invocations it is added to, n the number of invocations explored
HandleDispatch(R, base, n) ==
  /\ FreeSlots(n) # {}
  /\ error' = ""
  /\ dispatching' = TRUE
  /\ paused' = FALSE
  /\ progress' = ZeroProgress
  /\ retryCounts' = NoCounts
  /\ processedMessages' = {}
  /\ objDirty' = TRUE
  /\ loops' = [base EXCEPT ![FirstFree(n)] = NewLoop(R)]

\* the state after a continuation of invocation l that ended in res; when res is
\* past the finally block, setDispatching(false) and setDispatchInitiated(false)
Settle(l, res) ==
  /\ loops' = [loops EXCEPT ![l] = res.loop]
  /\ retryCounts' = res.rc
  /\ IF res.loop.pc = "idle"
     THEN dispatching' = FALSE /\ dispatchInitiated' = FALSE
     ELSE UNCHANGED <<dispatching, dispatchInitiated>>

\* ---- TokenCallback (src/src/TokenCallback.js): values ---------------------------
\* maxAttempts of trySend
TOKEN_MAX_ATTEMPTS == 10

\* the default lifetime, in seconds, of a login response without expiresIn
DEFAULT_EXPIRES_IN == 3600

\* the JavaScript channels trySend looks for, in order, then window.sendAuthToFlutter
Channels == <<"KingsListBridge", "KingsListAuth", "FlutterChannel">>

Bridges == Range(Channels) \cup {"sendAuthToFlutter"}

\* login responses: expiresIn in seconds, 0 for a response without one;
\* refreshToken "" for a response without one
ExpiresInValues == {0, 1800, 3600, 7200}

LoginResponses == [accessToken : {"at"}, refreshToken : {"", "rt"}, expiresIn : ExpiresInValues]

ChainIds == 1..MaxChains

\* a run of the effect that has not started
NoChain == [pc |-> "none", attempt |-> 0]

\* the component is not rendered: no login has happened
NoTok == [tokens |-> [accessToken |-> "", refreshToken |-> "", expiresIn |-> 0],
          shown |-> FALSE, effectPending |-> FALSE, sentRef |-> FALSE, bridge |-> "none",
          chains |-> [c \in ChainIds |-> NoChain], authData |-> <<>>, posted |-> <<>>,
          closes |-> 0]

\* ---- the work queue of handleDispatch over a long list: values ------------------
\* the greatest list length explored
QueueItems == 1..MaxQueueLen

NoWork == [pc |-> "idle", total |-> 0, cRetry |-> [i \in QueueItems |-> 0],
           remaining |-> <<>>, batch |-> <<>>, idx |-> 0, tried |-> {}]

\* ---- the dispatch page of src/test2.js: values ------------------------------------
\* RATE_LIMIT of its handleDispatch
MAX_RETRY_ATTEMPTS_2 == 1
BATCH_SIZE_2 == 10

Items2 == 1..MaxListLen

RunIds == 1..MaxRuns

NoCounts2 == [i \in Items2 |-> 0]

\* what a render of the page captures for handleDispatch and the effects
NoClosure == [isLoggedIn |-> FALSE, dispatching |-> FALSE, accessToken |-> "",
              processedMessages |-> {}, retryCounts |-> NoCounts2]

\* a handleDispatch invocation that is not running
IdleRun == [pc |-> "idle", cProcessed |-> {}, cRetry |-> NoCounts2, remaining |-> <<>>,
            batch |-> <<>>, idx |-> 0, attempt |-> 0]

\* no request in flight
NoRequest == [pending |-> FALSE, c |-> NoClosure]

\* the page is not open
NoApp2 == [onPage |-> FALSE, len |-> 0, session |-> FALSE, status |-> "none", start |-> "1",
           isLoggedIn |-> FALSE, accessToken |-> "", dispatching |-> FALSE,
           retryCounts |-> NoCounts2, processedMessages |-> {},
           rendered |-> NoClosure, objDirty |-> FALSE, effects |-> {},
           runs |-> [r \in RunIds |-> IdleRun], verify |-> NoRequest, login |-> NoRequest,
           invoked |-> {}, delivered |-> {}]

\* the programs other than the dispatch portal are not running
\* ---- the log of src/test.js: values --------------------------------------------------
\* the number of earlier entries addLog keeps: prev.slice(0, 100)
LOG_KEPT == 100

\* the log: entries newest first, each identified by the clock reading of its
\* timestamp; clock counts the addLog calls, mountedAt is the clock at the mount
NoLogs == [entries |-> <<>>, clock |-> 0, mountedAt |-> 0]

\* ---- processMessagesWithRetry of src/test3.js: values --------------------------------
BATCH_SIZE_3 == 5
MAX_RETRY_ATTEMPTS_3 == 2

FanItems == 1..MaxFanLen

\* a run: the locals remainingMessages, currentBatch and attempt, the sends in
\* flight with the outcomes settled so far, the states processedMessages and
\* retryCounts; calls and okEver are history (sends started per item, items
\* whose send was fulfilled)
NoFan == [pc |-> "idle", messages |-> <<>>, remaining |-> <<>>, batch |-> <<>>,
          inflight |-> {}, fulfilled |-> {}, rejected |-> {}, attempt |-> 0,
          processedMessages |-> {}, retryCounts |-> [i \in FanItems |-> 0],
          calls |-> [i \in FanItems |-> 0], okEver |-> {}]

\* ---- LoginForm of src/test3.js: values ---------------------------------------------
\* localStorage kc_session: absent, as written by handleLogin, or as rewritten
\* by verifySession with the newToken of the response
Sessions == {"none", "login", "renewed"}

\* requests holds, for every verification request in flight, the sessionData
\* its verifySession call parsed; loggedOut is history: Log Out was clicked and
\* no login has succeeded since
NoForm == [onPage |-> FALSE, session |-> "none", isLoggedIn |-> FALSE, loading |-> FALSE,
           error |-> "",
           showCallback |-> FALSE, tokensExposed |-> FALSE, requests |-> <<>>,
           loggedOut |-> FALSE]

AuxIdle == logs = NoLogs /\ fan = NoFan /\ form = NoForm

ExtIdle == tok = NoTok /\ work = NoWork /\ app2 = NoApp2 /\ AuxIdle

\* ---- Init -------------------------------------------------------------------
\* the page has rendered once; the effects of the mount have not run yet
AppInit ==
  /\ dispatching = FALSE
  /\ paused = FALSE
  /\ error = ""
  /\ progress = ZeroProgress
  /\ retryCounts = NoCounts
  /\ processedMessages = {}
  /\ dispatchInitiated = FALSE
  /\ rendered = InitialSnapshot
  /\ effectPending = TRUE
  /\ mounted = FALSE
  /\ objDirty = FALSE
  /\ ctrlAborted = FALSE
  /\ sessionStatus = "none"
  /\ startParam \in {"0", "1"}
  /\ loops = [l \in LoopIds |-> IdleLoop]
  /\ analytics = NoAnalytics
  /\ recorded = {}
  /\ sendCount = 0

Init == AppInit /\ calc = NoCall /\ ExtIdle

\* ---- user events -------------------------------------------------------------
\* the Start Dispatch button, shown while the rendered dispatching is false
StartDispatch(n) ==
  /\ ~rendered.dispatching
  /\ IF Rejects(rendered)
     THEN UNCHANGED vars
     ELSE /\ HandleDispatch(rendered, loops, n)
          /\ UNCHANGED <<dispatchInitiated, rendered, effectPending, mounted,
                         ctrlAborted, sessionStatus, startParam, recorded, sendCount,
                            analytics, calc, extVars>>

ClickStart == StartDispatch(MaxLoops)

\* handlePauseResume, a closure of the last render; the button is shown while
\* the rendered dispatching is true
ClickPauseResume ==
  /\ rendered.dispatching
  /\ paused' = ~rendered.paused
  /\ loops' = [l \in LoopIds |->
                 IF Active(loops[l]) /\ ~rendered.paused
                 THEN [loops[l] EXCEPT !.pausedSeen = TRUE] ELSE loops[l]]
  /\ UNCHANGED <<dispatching, error, progress, retryCounts, processedMessages,
                 dispatchInitiated, rendered, effectPending, mounted, objDirty,
                 ctrlAborted, sessionStatus, startParam, recorded, sendCount,
                    analytics, calc, extVars>>

\* handleCancel: abort, setDispatching(false), setPaused(false), new controller
ClickCancel ==
  /\ rendered.dispatching
  /\ loops' = [l \in LoopIds |->
                 IF Active(loops[l])
                 THEN [AbortListeners(loops)[l] EXCEPT
                         !.cancelled = TRUE,
                         !.waitCancelled = (@ \/ loops[l].pc = "pausewait")]
                 ELSE loops[l]]
  /\ dispatching' = FALSE
  /\ paused' = FALSE
  /\ ctrlAborted' = FALSE
  /\ UNCHANGED <<error, progress, retryCounts, processedMessages, dispatchInitiated,
                 rendered, effectPending, mounted, objDirty, sessionStatus,
                 startParam, recorded, sendCount, analytics, calc, extVars>>

\* a reload of the page: the component state is rebuilt, the running
\* invocations are gone, sessionStorage and the URL stay
Reload ==
  /\ dispatching' = FALSE
  /\ paused' = FALSE
  /\ error' = ""
  /\ progress' = ZeroProgress
  /\ retryCounts' = NoCounts
  /\ processedMessages' = {}
  /\ dispatchInitiated' = FALSE
  /\ rendered' = InitialSnapshot
  /\ effectPending' = TRUE
  /\ mounted' = FALSE
  /\ objDirty' = FALSE
  /\ ctrlAborted' = FALSE
  /\ loops' = [l \in LoopIds |-> IdleLoop]
  /\ UNCHANGED <<sessionStatus, startParam, recorded, sendCount, analytics, calc, extVars>>

\* ---- React ------------------------------------------------------------------
\* a commit: the closures of the handlers now hold the current state.  The
\* effect's dependencies [isLoggedIn, dispatching, handleDispatch,
\* dispatchInitiated] change with every change of the snapshot, and with every
\* replaced Set / object even when its content is the same.
Commit ==
  /\ ~effectPending
  /\ objDirty \/ rendered # Snapshot
  /\ rendered' = Snapshot
  /\ objDirty' = FALSE
  /\ effectPending' = TRUE
  /\ UNCHANGED <<dispatching, paused, error, progress, retryCounts, processedMessages,
                 dispatchInitiated, mounted, ctrlAborted, sessionStatus, startParam,
                 loops, recorded, sendCount, analytics, calc, extVars>>

\* the condition of the automatic start, in the closure R of the effect
AutoStart(R) ==
  /\ ~R.dispatching
  /\ startParam = "1"
  /\ sessionStatus # "completed"
  /\ ~R.dispatchInitiated

\* the effect flush of the last commit: the cleanup of the previous effect
\* (abort of the current controller, setDispatching(false), setPaused(false)),
\* then the body of the new one
StartEffect(n) ==
  /\ effectPending
  /\ effectPending' = FALSE
  /\ mounted' = TRUE
  /\ ctrlAborted' = (mounted \/ ctrlAborted)
  /\ LET base == IF mounted THEN AbortListeners(loops) ELSE loops
     IN IF AutoStart(rendered) /\ ~Rejects(rendered)
        THEN /\ sessionStatus' = "in_progress"
             /\ dispatchInitiated' = TRUE
             /\ HandleDispatch(rendered, base, n)
             /\ UNCHANGED <<rendered, startParam, recorded, sendCount, analytics, calc, extVars>>
        ELSE /\ sessionStatus' = IF AutoStart(rendered) THEN "in_progress" ELSE sessionStatus
             /\ loops' = base
             /\ dispatching' = IF mounted THEN FALSE ELSE dispatching
             /\ paused' = IF mounted THEN FALSE ELSE paused
             /\ dispatchInitiated' = IF AutoStart(rendered) THEN FALSE ELSE dispatchInitiated
             /\ UNCHANGED <<error, progress, retryCounts, processedMessages,
                            rendered, objDirty, startParam, recorded, sendCount,
                               analytics, calc, extVars>>

Effect == StartEffect(MaxLoops)

\* ---- continuations of handleDispatch ---------------------------------------
\* a variant of FetchSettles in which an empty or missing list is a run of no
\* items: no error, straight to the final report
FetchSettlesEmptyAsDone(l, got) ==
  /\ loops[l].pc = "fetch"
  /\ progress' = [progress EXCEPT !.total = IF got = "messages" THEN NumItems ELSE 0]
  /\ Settle(l, LoopHead([loops[l] EXCEPT
                           !.remaining = IF got = "messages" THEN Messages ELSE <<>>,
                           !.attempt = 0],
                        retryCounts, progress', ctrlAborted))
  /\ objDirty' = (objDirty \/ retryCounts' # retryCounts)
  /\ UNCHANGED <<paused, error, processedMessages, rendered, effectPending, mounted,
                 ctrlAborted, sessionStatus, startParam, recorded, sendCount,
                 analytics, calc, extVars>>

\* fetchDispatchBatch settles: with the message list, or by throwing (a failed
\* request, or an empty or missing list)
FetchSettles(l, got) ==
  /\ loops[l].pc = "fetch"
  /\ IF got = "messages"
     THEN /\ progress' = [progress EXCEPT !.total = NumItems]
          /\ Settle(l, LoopHead([loops[l] EXCEPT !.remaining = Messages, !.attempt = 0],
                                retryCounts, progress', ctrlAborted))
          /\ UNCHANGED error
     ELSE /\ error' = "Dispatch error: No messages available"
          /\ Settle(l, [loop |-> Finally(loops[l]), rc |-> retryCounts])
          /\ UNCHANGED progress
  /\ objDirty' = (objDirty \/ retryCounts' # retryCounts)
  /\ UNCHANGED <<paused, processedMessages, rendered, effectPending, mounted,
                 ctrlAborted, sessionStatus, startParam, recorded, sendCount,
                    analytics, calc, extVars>>

FetchResolve(l) == \E got \in {"messages", "none"} : FetchSettles(l, got)

\* the delay's timer fires: sendMessage is invoked (budget bounds the calls explored)
StartSend(l, budget) ==
  /\ loops[l].pc = "delay"
  /\ ~loops[l].sig
  /\ LET msg == loops[l].batch[loops[l].idx]
     IN /\ sendCount < budget
        /\ sendCount' = sendCount + 1
        /\ loops' = [loops EXCEPT ![l].pc = "send", ![l].sent[msg] = @ + 1]
  /\ UNCHANGED <<dispatching, paused, error, progress, retryCounts, processedMessages,
                 dispatchInitiated, rendered, effectPending, mounted, objDirty,
                 ctrlAborted, sessionStatus, startParam, recorded, analytics, calc, extVars>>

DelayResolve(l) == StartSend(l, MaxSends)

\* the delay is rejected by the abort listener: AbortError, break out of the for loop
DelayAbort(l) ==
  /\ loops[l].pc = "delay"
  /\ loops[l].sig
  /\ Settle(l, AfterBatch(loops[l], retryCounts, progress, ctrlAborted))
  /\ objDirty' = (objDirty \/ retryCounts' # retryCounts)
  /\ UNCHANGED <<paused, error, progress, processedMessages, rendered, effectPending,
                 mounted, ctrlAborted, sessionStatus, startParam, recorded, sendCount,
                    analytics, calc, extVars>>

\* the outcomes of the SDK call under sendMessage that make it throw
Throws == {"throw", "rateLimited"}

\* what sendMessage (src/unnamed/part_002) throws when the SDK call fails with
\* out: a new Error built from the message alone; the SDK error's response (its
\* status, 429 for a rate limit) is logged and dropped.  0 stands for no response.
SendMessageError(out) == [name |-> "Error", response |-> 0]

\* what the catch block does with a message whose send threw err: retryCount is
\* the closure's retryCounts[msg.kc_id] || 0
OnSendError(L, pg, msg, err) ==
  LET pg1 == IF err.response = 429 THEN [pg EXCEPT !.rateLimited = @ + 1] ELSE pg
  IN IF L.cRetry[msg] < MAX_RETRY_ATTEMPTS
     THEN [loop |-> [L EXCEPT !.remaining = <<msg>> \o @], pg |-> pg1]
     ELSE [loop |-> L, pg |-> [pg1 EXCEPT !.current = @ + 1, !.failed = @ + 1]]

\* sendMessage settles: res.success, a result without success, or a thrown Error
\* (the SDK call failed, with a rate limit or otherwise)
SendSettles(l, out) ==
  /\ loops[l].pc = "send"
  /\ LET L == loops[l]
         msg == L.batch[L.idx]
         err == OnSendError(L, progress, msg, SendMessageError(out))
         L1 == IF out \in Throws THEN err.loop
               ELSE IF out = "success" THEN [L EXCEPT !.succeeded = @ \cup {msg}] ELSE L
     IN /\ progress' = IF out = "success"
                       THEN [progress EXCEPT !.current = @ + 1, !.success = @ + 1]
                       ELSE IF out \in Throws THEN err.pg ELSE progress
        /\ processedMessages' = IF out = "success"
                                THEN processedMessages \cup {msg} ELSE processedMessages
        /\ recorded' = IF out = "success" THEN recorded \cup {msg} ELSE recorded
        /\ Settle(l, ForItem(L1, L.idx + 1, retryCounts, progress', ctrlAborted))
        /\ objDirty' = (objDirty \/ out = "success" \/ retryCounts' # retryCounts)
  /\ UNCHANGED <<paused, error, rendered, effectPending, mounted, ctrlAborted,
                 sessionStatus, startParam, sendCount, analytics, calc, extVars>>

SendResolve(l) ==
  \E out \in {"success", "nosuccess", "throw", "rateLimited"} : SendSettles(l, out)

\* a variant of SyncSettles in which a failed periodic report ends the run with
\* the error displayed, as a failed final report does
SyncSettlesFailureFatal(l, out) ==
  /\ loops[l].pc = "sync"
  /\ out \in (IF loops[l].sig THEN {"abort"} ELSE {"ok", "failed"})
  /\ IF out = "failed"
     THEN /\ error' = "Dispatch error: Failed to update status"
          /\ Settle(l, [loop |-> Finally(loops[l]), rc |-> retryCounts])
     ELSE /\ error' = error
          /\ Settle(l, LoopHead([loops[l] EXCEPT !.attempt = @ + 1, !.rep = NoReport,
                                                 !.sig = FALSE],
                                retryCounts, progress, ctrlAborted))
  /\ objDirty' = (objDirty \/ retryCounts' # retryCounts)
  /\ UNCHANGED <<paused, progress, processedMessages, rendered, effectPending,
                 mounted, ctrlAborted, sessionStatus, startParam, recorded, sendCount,
                 analytics, calc, extVars>>

\* the periodic updateDispatchStatus settles; whatever the outcome (a failure is
\* logged, an AbortError ignored) the loop goes on with attempt++
SyncSettles(l, out) ==
  /\ loops[l].pc = "sync"
  /\ out \in (IF loops[l].sig THEN {"abort"} ELSE {"ok", "failed"})
  /\ Settle(l, LoopHead([loops[l] EXCEPT !.attempt = @ + 1, !.rep = NoReport, !.sig = FALSE,
                                         !.syncFailed = (@ \/ out = "failed")],
                        retryCounts, progress, ctrlAborted))
  /\ objDirty' = (objDirty \/ retryCounts' # retryCounts)
  /\ UNCHANGED <<paused, error, progress, processedMessages, rendered, effectPending,
                 mounted, ctrlAborted, sessionStatus, startParam, recorded, sendCount,
                    analytics, calc, extVars>>

SyncResolve(l) == \E out \in {"ok", "failed", "abort"} : SyncSettles(l, out)

\* a variant of FinalSettles in which a failed final report is only logged and
\* the job is marked completed all the same
FinalSettlesIgnoringFailure(l, out) ==
  /\ loops[l].pc = "final"
  /\ out \in (IF loops[l].sig THEN {"abort"} ELSE {"ok", "failed"})
  /\ sessionStatus' = IF out # "abort" THEN "completed" ELSE sessionStatus
  /\ startParam' = IF out # "abort" THEN "2" ELSE startParam
  /\ analytics' = IF out # "abort"
                  THEN [written |-> TRUE, success |-> progress.success,
                        failed |-> progress.failed]
                  ELSE analytics
  /\ Settle(l, [loop |-> Finally(loops[l]), rc |-> retryCounts])
  /\ UNCHANGED <<paused, error, progress, processedMessages, rendered, effectPending,
                 mounted, objDirty, ctrlAborted, recorded, sendCount, calc, extVars>>

\* the final updateDispatchStatus settles: success, a failure (the endpoint
\* answers success false or the request fails), or the AbortError of its signal
FinalSettles(l, out) ==
  /\ loops[l].pc = "final"
  /\ out \in (IF loops[l].sig THEN {"abort"} ELSE {"ok", "failed"})
  /\ sessionStatus' = IF out = "ok" THEN "completed" ELSE sessionStatus
  /\ startParam' = IF out = "ok" THEN "2" ELSE startParam
  /\ error' = IF out = "failed" THEN "Dispatch error: Failed to update status" ELSE error
  /\ analytics' = IF out = "ok"
                  THEN [written |-> TRUE, success |-> progress.success,
                        failed |-> progress.failed]
                  ELSE analytics
  /\ Settle(l, [loop |-> Finally(loops[l]), rc |-> retryCounts])
  /\ UNCHANGED <<paused, progress, processedMessages, rendered, effectPending, mounted,
                 objDirty, ctrlAborted, recorded, sendCount, calc, extVars>>

FinalResolve(l) == \E out \in {"ok", "failed", "abort"} : FinalSettles(l, out)

\* a tick of the pause interval: it resolves when the closure's paused is false
\* or the current controller's signal is aborted; then `continue`
PauseWakeOnResumeOnly(l) ==
  /\ loops[l].pc = "pausewait"
  /\ ~loops[l].cPaused
  /\ Settle(l, LoopHead(loops[l], retryCounts, progress, ctrlAborted))
  /\ objDirty' = (objDirty \/ retryCounts' # retryCounts)
  /\ UNCHANGED <<paused, error, progress, processedMessages, rendered, effectPending,
                 mounted, ctrlAborted, sessionStatus, startParam, recorded, sendCount,
                 analytics, calc, extVars>>

\* a tick of the pause interval: it resolves when the closure's paused is false
\* or the current controller's signal is aborted; then `continue`
PauseWake(l) ==
  /\ loops[l].pc = "pausewait"
  /\ ~loops[l].cPaused \/ ctrlAborted
  /\ Settle(l, LoopHead(loops[l], retryCounts, progress, ctrlAborted))
  /\ objDirty' = (objDirty \/ retryCounts' # retryCounts)
  /\ UNCHANGED <<paused, error, progress, processedMessages, rendered, effectPending,
                 mounted, ctrlAborted, sessionStatus, startParam, recorded, sendCount,
                    analytics, calc, extVars>>

Next ==
  \/ ClickStart
  \/ ClickPauseResume
  \/ ClickCancel
  \/ Reload
  \/ Commit
  \/ Effect
  \/ \E l \in LoopIds : FetchResolve(l)
  \/ \E l \in LoopIds : DelayResolve(l)
  \/ \E l \in LoopIds : DelayAbort(l)
  \/ \E l \in LoopIds : SendResolve(l)
  \/ \E l \in LoopIds : SyncResolve(l)
  \/ \E l \in LoopIds : FinalResolve(l)
  \/ \E l \in LoopIds : PauseWake(l)

Spec == Init /\ [][Next]_vars

\* ---- overlapping invocations ---------------------------------------------------
\* The same program with a second handleDispatch invocation explored while the
\* first is in progress.
ClickStartOverlap == StartDispatch(MaxOverlapLoops)

EffectOverlap == StartEffect(MaxOverlapLoops)

DelayResolveOverlap(l) == StartSend(l, MaxOverlapSends)

NextOverlap ==
  \/ ClickStartOverlap
  \/ ClickPauseResume
  \/ ClickCancel
  \/ Reload
  \/ Commit
  \/ EffectOverlap
  \/ \E l \in LoopIds : FetchResolve(l)
  \/ \E l \in LoopIds : DelayResolveOverlap(l)
  \/ \E l \in LoopIds : DelayAbort(l)
  \/ \E l \in LoopIds : SendResolve(l)
  \/ \E l \in LoopIds : SyncResolve(l)
  \/ \E l \in LoopIds : FinalResolve(l)
  \/ \E l \in LoopIds : PauseWake(l)

SpecOverlap == Init /\ [][NextOverlap]_vars

\* ---- the pause wait under fair scheduling ---------------------------------------
\* The same program, one invocation, with the scheduling the browser and React
\* guarantee: a render that is due is committed, the effects of a commit are
\* flushed, and a tick of the pause interval that finds its condition true
\* resolves the wait (the interval ticks every second for as long as it waits).
\* The page is opened without start_dispatch=1: runs are started by the button.
DelayResolvePause(l) == StartSend(l, MaxPauseSends)

NextPause ==
  \/ ClickStart
  \/ ClickPauseResume
  \/ ClickCancel
  \/ Reload
  \/ Commit
  \/ Effect
  \/ \E l \in LoopIds : FetchResolve(l)
  \/ \E l \in LoopIds : DelayResolvePause(l)
  \/ \E l \in LoopIds : DelayAbort(l)
  \/ \E l \in LoopIds : SendResolve(l)
  \/ \E l \in LoopIds : SyncResolve(l)
  \/ \E l \in LoopIds : FinalResolve(l)
  \/ \E l \in LoopIds : PauseWake(l)

InitPause == Init /\ startParam = "0"

SpecPause ==
  /\ InitPause
  /\ [][NextPause]_vars
  /\ WF_vars(Commit)
  /\ WF_vars(Effect)
  /\ \A l \in LoopIds : SF_vars(PauseWake(l))

\* ---- the automatic start alone -----------------------------------------------------
\* The page is opened with start_dispatch=1 by a logged-in user who neither
\* clicks Start or Cancel nor leaves or reloads the page: every run is started
\* by the effect, and abort() is only ever called by the effect's cleanup.
\* No such run waits in the pause loop: the cleanup that precedes the effect's
\* body has called setPaused(false), and the body starts nothing from a render
\* with dispatching true.
InitAuto == Init /\ startParam = "1"

NextAuto ==
  \/ ClickPauseResume
  \/ Commit
  \/ Effect
  \/ \E l \in LoopIds : FetchResolve(l)
  \/ \E l \in LoopIds : DelayResolve(l)
  \/ \E l \in LoopIds : DelayAbort(l)
  \/ \E l \in LoopIds : SendResolve(l)
  \/ \E l \in LoopIds : SyncResolve(l)
  \/ \E l \in LoopIds : FinalResolve(l)

SpecAuto == InitAuto /\ [][NextAuto]_vars

\* ---- calculateDelay applied to drawn arguments ---------------------------------
InitDelay ==
  /\ AppInit
  /\ ExtIdle
  /\ calc \in [exponential : BOOLEAN, attempt : AttemptIndices, called : {FALSE},
               of : {0}, delay : {0}]

ApplyDelay ==
  /\ calc' = [calc EXCEPT !.called = TRUE, !.of = calc.attempt,
                          !.delay = CalculateDelayWith(calc.exponential, calc.attempt)]
  /\ UNCHANGED <<appVars, extVars>>

ChooseAttempt ==
  /\ \E a \in AttemptIndices : calc' = [calc EXCEPT !.attempt = a]
  /\ UNCHANGED <<appVars, extVars>>

NextDelay == ApplyDelay \/ ChooseAttempt

SpecDelay == InitDelay /\ [][NextDelay]_vars


\* ---- TokenCallback (src/src/TokenCallback.js) ----------------------------------
\* The parent renders <TokenCallback tokens={tokens} onClose={...}/> after a
\* login, with tokens = { ...authResponse, profile }.  onClose is an inline
\* arrow function: every render of the parent passes a new one, and the effect
\* (dependencies [tokens, onClose], no cleanup) runs again.

\* the tokenData object the effect builds from tokens
TokenData(tokens) ==
  [accessToken |-> tokens.accessToken,
   refreshToken |-> tokens.refreshToken,
   expiresIn |-> (IF tokens.expiresIn = 0 THEN DEFAULT_EXPIRES_IN ELSE tokens.expiresIn) * 1000]

\* a variant of TrySend that schedules nothing after the last attempt without a
\* channel
TrySendNoCloseAfterLast(t, c) ==
  LET a == t.chains[c].attempt + 1
  IN IF t.bridge \in Bridges
     THEN [t EXCEPT !.chains[c] = [pc |-> "close", attempt |-> a],
                    !.sentRef = TRUE,
                    !.posted = Append(@, [via |-> t.bridge, data |-> TokenData(t.tokens)])]
     ELSE [t EXCEPT !.chains[c] = [pc |-> IF a < TOKEN_MAX_ATTEMPTS THEN "retry" ELSE "over",
                                   attempt |-> a]]

\* trySend of chain c: attempt++, the first channel with a postMessage function
\* or else sendAuthToFlutter gets the data; without any, retry in 500 ms while
\* attempt < maxAttempts, else close in 1000 ms
TrySend(t, c) ==
  LET a == t.chains[c].attempt + 1
  IN IF t.bridge \in Bridges
     THEN [t EXCEPT !.chains[c] = [pc |-> "close", attempt |-> a],
                    !.sentRef = TRUE,
                    !.posted = Append(@, [via |-> t.bridge, data |-> TokenData(t.tokens)])]
     ELSE [t EXCEPT !.chains[c] = [pc |-> IF a < TOKEN_MAX_ATTEMPTS THEN "retry" ELSE "close",
                                   attempt |-> a]]

FreeChains == {c \in ChainIds : tok.chains[c].pc = "none"}

TokInit ==
  \E r \in LoginResponses, b \in Bridges \cup {"none"} :
    tok = [NoTok EXCEPT !.tokens = r, !.shown = TRUE, !.effectPending = TRUE, !.bridge = b]

InitToken ==
  AppInit /\ startParam = "0" /\ calc = NoCall /\ TokInit /\ work = NoWork /\ app2 = NoApp2
  /\ AuxIdle

\* the effect: nothing when sentRef.current; else store tokenData and trySend
TokEffect ==
  /\ tok.shown
  /\ tok.effectPending
  /\ IF tok.sentRef
     THEN tok' = [tok EXCEPT !.effectPending = FALSE]
     ELSE /\ FreeChains # {}
          /\ LET c == CHOOSE c \in FreeChains : \A d \in FreeChains : c <= d
             IN tok' = TrySend([tok EXCEPT !.effectPending = FALSE,
                                           !.authData = <<TokenData(tok.tokens)>>], c)
  /\ UNCHANGED <<portalVars, work, app2, auxVars>>

\* the 500 ms timer of chain c fires: trySend again
TokRetry(c) ==
  /\ tok.chains[c].pc = "retry"
  /\ tok' = TrySend(tok, c)
  /\ UNCHANGED <<portalVars, work, app2, auxVars>>

\* the close timer of chain c fires: onClose() takes the component off the page
TokClose(c) ==
  /\ tok.chains[c].pc = "close"
  /\ tok' = [tok EXCEPT !.chains[c].pc = "done", !.shown = FALSE, !.closes = @ + 1]
  /\ UNCHANGED <<portalVars, work, app2, auxVars>>

\* the parent renders again while the component is shown: a new onClose
TokRerender ==
  /\ tok.shown
  /\ ~tok.effectPending
  /\ FreeChains # {}
  /\ tok' = [tok EXCEPT !.effectPending = TRUE]
  /\ UNCHANGED <<portalVars, work, app2, auxVars>>

\* the Flutter side injects a channel or the bridge function
BridgeInjected ==
  /\ tok.bridge = "none"
  /\ \E b \in Bridges : tok' = [tok EXCEPT !.bridge = b]
  /\ UNCHANGED <<portalVars, work, app2, auxVars>>

NextToken ==
  \/ TokEffect
  \/ \E c \in ChainIds : TokRetry(c)
  \/ \E c \in ChainIds : TokClose(c)
  \/ TokRerender
  \/ BridgeInjected

SpecToken == InitToken /\ [][NextToken]_vars

\* The timers of setTimeout fire: a retry or a close that is due happens.
SpecTokenFair ==
  /\ InitToken
  /\ [][NextToken]_vars
  /\ \A c \in ChainIds : WF_vars(TokRetry(c)) /\ WF_vars(TokClose(c))

\* ---- the work queue of handleDispatch (src/test.js:186-284) ----------------------
\* The while loop of one run over a list of up to MaxQueueLen items, reduced to
\* what decides the order of the attempts: remainingMessages, the batch, the
\* position in it and the closure's retryCounts.  The signal is not aborted and
\* the closure's paused is false (no cancel, no pause); the closure's
\* processedMessages is empty, as the guard of handleDispatch requires.  The
\* counters and the status reports do not influence the order and are left out.
InitQueue ==
  /\ AppInit
  /\ startParam = "0"
  /\ calc = NoCall
  /\ tok = NoTok
  /\ app2 = NoApp2
  /\ AuxIdle
  /\ \E n \in 1..MaxQueueLen, rc \in [QueueItems -> {0, MAX_RETRY_ATTEMPTS}] :
       work = [NoWork EXCEPT !.pc = "head", !.total = n, !.cRetry = rc,
                             !.remaining = [k \in 1..n |-> k]]

\* the while condition and the slicing of the next batch (186, 199-201); with
\* nothing remaining the loop is left
QueueBatch ==
  /\ work.pc = "head"
  /\ work' = IF work.remaining # <<>>
             THEN [work EXCEPT !.pc = "send", !.idx = 1,
                               !.batch = SliceTo(work.remaining, BATCH_SIZE),
                               !.remaining = SliceFrom(work.remaining, BATCH_SIZE)]
             ELSE [work EXCEPT !.pc = "done", !.batch = <<>>, !.idx = 0]
  /\ UNCHANGED <<portalVars, tok, app2, auxVars>>

\* the attempt of the batch's next message settles with out (211-270): a thrown
\* error re-enqueues it at the front while the closure's retryCount is below
\* MAX_RETRY_ATTEMPTS
QueueAttempt(out) ==
  /\ work.pc = "send"
  /\ LET msg == work.batch[work.idx]
         requeue == out \in Throws /\ work.cRetry[msg] < MAX_RETRY_ATTEMPTS
         last == work.idx = Len(work.batch)
     IN work' = [work EXCEPT !.tried = @ \cup {msg},
                             !.remaining = IF requeue THEN <<msg>> \o @ ELSE @,
                             !.idx = IF last THEN 0 ELSE @ + 1,
                             !.batch = IF last THEN <<>> ELSE @,
                             !.pc = IF last THEN "head" ELSE "send"]
  /\ UNCHANGED <<portalVars, tok, app2, auxVars>>

QueueSettle == \E out \in {"success", "nosuccess", "throw", "rateLimited"} : QueueAttempt(out)

NextQueue == QueueBatch \/ QueueSettle

\* every timer fires and every request settles
SpecQueue == InitQueue /\ [][NextQueue]_vars /\ WF_vars(NextQueue)

\* ---- the dispatch page of src/test2.js ----------------------------------------------
\* The component App of src/test2.js with its three effects (mount, session
\* verification, dispatch trigger), handleLogin and handleDispatch.  As for the
\* portal, the state is kept twice: live, and as captured by the closures of the
\* last committed render.  The progress counters, the error text, the analytics
\* entry and the payload of the status report are shown or sent, and read by no
\* condition of the page: they are left out.  The URL carries a dmsg_id.

Snapshot2(a) == [isLoggedIn |-> a.isLoggedIn, dispatching |-> a.dispatching,
                 accessToken |-> a.accessToken,
                 processedMessages |-> a.processedMessages, retryCounts |-> a.retryCounts]

FreeRuns(a, n) == {r \in 1..n : a.runs[r].pc = "idle"}

\* handleDispatch up to the await of fetchDispatchBatch, as the closure R; it has
\* no guard.  n is the number of invocations explored
HandleDispatch2(a, R, n) ==
  LET r == CHOOSE r \in FreeRuns(a, n) : \A q \in FreeRuns(a, n) : r <= q
  IN [a EXCEPT !.dispatching = TRUE, !.retryCounts = NoCounts2, !.processedMessages = {},
               !.objDirty = TRUE,
               !.runs[r] = [IdleRun EXCEPT !.pc = "fetch", !.cProcessed = R.processedMessages,
                                           !.cRetry = R.retryCounts]]

\* the least index >= from of the batch that the for loop does not skip, or 0
FirstSendable2(run, from) ==
  LET ks == {k \in from..Len(run.batch) : run.batch[k] \notin run.cProcessed}
  IN IF ks = {} THEN 0 ELSE CHOOSE k \in ks : \A m \in ks : k <= m

RECURSIVE LoopHead2(_, _)

\* the for loop from index from; after the last message attempt++ and, with
\* messages remaining, the delay between batches
ForItem2(run, rc, from) ==
  LET k == FirstSendable2(run, from)
      done == [run EXCEPT !.attempt = @ + 1, !.batch = <<>>, !.idx = 0]
  IN IF k # 0
     THEN [run |-> [run EXCEPT !.pc = "delay", !.idx = k], rc |-> rc]
     ELSE IF done.remaining # <<>>
          THEN [run |-> [done EXCEPT !.pc = "batchdelay"], rc |-> rc]
          ELSE LoopHead2(done, rc)

\* the while condition and the slicing of the batch; after the loop the status
\* update is awaited
LoopHead2(run, rc) ==
  IF run.remaining # <<>> /\ run.attempt < MAX_RETRY_ATTEMPTS_2
  THEN LET currentBatch == SliceTo(run.remaining, BATCH_SIZE_2)
           run1 == [run EXCEPT !.batch = currentBatch,
                               !.remaining = SliceFrom(run.remaining, BATCH_SIZE_2)]
           rc1 == [i \in Items2 |->
                     IF i \in Range(currentBatch) /\ i \notin run.cProcessed
                     THEN rc[i] + 1 ELSE rc[i]]
       IN ForItem2(run1, rc1, 1)
  ELSE [run |-> [run EXCEPT !.pc = "final", !.batch = <<>>, !.idx = 0], rc |-> rc]

\* the page after a continuation of invocation r that ended in res
Settle2(a, r, res) ==
  [a EXCEPT !.runs[r] = res.run,
            !.objDirty = (@ \/ res.rc # a.retryCounts),
            !.retryCounts = res.rc]

\* the catch / finally blocks: the invocation is over, setDispatching(false)
Finally2(a, r) == [a EXCEPT !.runs[r] = IdleRun, !.dispatching = FALSE]

\* a page load: the component state is built from localStorage, the three
\* effects of the mount are due; sessionStorage stays
Loaded(a, start) ==
  LET c == [NoClosure EXCEPT !.isLoggedIn = a.session,
                             !.accessToken = IF a.session THEN "at" ELSE ""]
  IN [a EXCEPT !.onPage = TRUE, !.start = start, !.isLoggedIn = c.isLoggedIn,
               !.accessToken = c.accessToken, !.dispatching = FALSE,
               !.retryCounts = NoCounts2, !.processedMessages = {}, !.rendered = c,
               !.objDirty = FALSE, !.effects = {"mount", "verify", "trigger"},
               !.runs = [r \in RunIds |-> IdleRun], !.verify = NoRequest,
               !.login = NoRequest]

\* the user reloads the page, or opens the dispatch link (start_dispatch=1) again
Load2 ==
  /\ \E start \in {app2.start, "1"} : app2' = Loaded(app2, start)
  /\ UNCHANGED <<portalVars, tok, work, auxVars>>

\* a commit: the closures hold the current state.  handleDispatch is a new
\* function when accessToken, processedMessages or retryCounts changed (a
\* replaced Set / object counts as changed): the verification effect and the
\* trigger effect are due; the trigger effect also when isLoggedIn or
\* dispatching changed
Commit2 ==
  /\ app2.onPage
  /\ app2.effects = {}
  /\ app2.objDirty \/ app2.rendered # Snapshot2(app2)
  /\ LET newCallback == app2.objDirty \/ app2.rendered.accessToken # app2.accessToken
     IN app2' = [app2 EXCEPT !.rendered = Snapshot2(app2), !.objDirty = FALSE,
                             !.effects = IF newCallback THEN {"verify", "trigger"}
                                         ELSE {"trigger"}]
  /\ UNCHANGED <<portalVars, tok, work, auxVars>>

\* the mount effect: the marker is set to in_progress unless it is completed
MountEffect(a) ==
  IF "mount" \in a.effects /\ a.start = "1" /\ a.status # "completed"
  THEN [a EXCEPT !.status = "in_progress"] ELSE a

\* the session-verification effect up to its await: with a session stored the
\* verification request is sent
VerifyEffect(a) ==
  IF "verify" \in a.effects /\ a.session
  THEN [a EXCEPT !.verify = [pending |-> TRUE, c |-> a.rendered]] ELSE a

\* the condition of the trigger effect
Triggers(a) ==
  /\ "trigger" \in a.effects
  /\ a.rendered.isLoggedIn
  /\ ~a.rendered.dispatching
  /\ a.start = "1"
  /\ a.status = "in_progress"

TriggerEffect(a, n) == IF Triggers(a) THEN HandleDispatch2(a, a.rendered, n) ELSE a

\* the effects of the last commit, in the order of their declaration
Effects2(n) ==
  /\ app2.onPage
  /\ app2.effects # {}
  /\ ("verify" \in app2.effects /\ app2.session) => ~app2.verify.pending
  /\ LET a1 == VerifyEffect(MountEffect(app2))
     IN /\ Triggers(a1) => FreeRuns(a1, n) # {}
        /\ app2' = [TriggerEffect(a1, n) EXCEPT !.effects = {}]
  /\ UNCHANGED <<portalVars, tok, work, auxVars>>

\* the Dispatch button, shown to a logged-in user while dispatching is false
\* and dispatchId is set (by the mount effect)
ClickDispatch2(n) ==
  /\ app2.onPage
  /\ "mount" \notin app2.effects
  /\ app2.rendered.isLoggedIn
  /\ ~app2.rendered.dispatching
  /\ FreeRuns(app2, n) # {}
  /\ app2' = HandleDispatch2(app2, app2.rendered, n)
  /\ UNCHANGED <<portalVars, tok, work, auxVars>>

\* the login button, shown while isLoggedIn is false: handleLogin awaits login()
ClickLogin2 ==
  /\ app2.onPage
  /\ ~app2.rendered.isLoggedIn
  /\ ~app2.login.pending
  /\ app2' = [app2 EXCEPT !.login = [pending |-> TRUE, c |-> app2.rendered]]
  /\ UNCHANGED <<portalVars, tok, work, auxVars>>

\* login() settles.  On success the session is stored; with start_dispatch=1
\* the marker is set to in_progress and handleDispatch is called, otherwise the
\* tokens are posted to the callback URL and the page is left
LoginSettles2(out, n) ==
  /\ app2.onPage
  /\ app2.login.pending
  /\ LET a1 == [app2 EXCEPT !.login = NoRequest]
         a2 == [a1 EXCEPT !.session = TRUE, !.accessToken = "at", !.isLoggedIn = TRUE]
     IN IF out = "ok"
        THEN IF app2.start = "1"
             THEN /\ FreeRuns(a2, n) # {}
                  /\ app2' = HandleDispatch2([a2 EXCEPT !.status = "in_progress"],
                                             app2.login.c, n)
             ELSE app2' = [a2 EXCEPT !.onPage = FALSE, !.runs = [r \in RunIds |-> IdleRun],
                                     !.verify = NoRequest, !.effects = {}]
        ELSE app2' = a1
  /\ UNCHANGED <<portalVars, tok, work, auxVars>>

\* verify_session.php settles: valid (the dispatch is started unless the marker
\* is completed), not valid or a failed request (the session is removed), or a
\* response that is not ok (nothing)
VerifySettles2(out, n) ==
  /\ app2.onPage
  /\ app2.verify.pending
  /\ LET a1 == [app2 EXCEPT !.verify = NoRequest]
         a2 == [a1 EXCEPT !.accessToken = "at", !.isLoggedIn = TRUE]
     IN CASE out = "valid" ->
               IF app2.start = "1" /\ app2.status # "completed"
               THEN /\ FreeRuns(a2, n) # {}
                    /\ app2' = HandleDispatch2([a2 EXCEPT !.status = "in_progress"],
                                               app2.verify.c, n)
               ELSE app2' = a2
          [] out \in {"invalid", "throw"} -> app2' = [a1 EXCEPT !.session = FALSE]
          [] OTHER -> app2' = a1
  /\ UNCHANGED <<portalVars, tok, work, auxVars>>

\* fetchDispatchBatch settles: with the message list, or by throwing
FetchSettles2(r, got) ==
  /\ app2.runs[r].pc = "fetch"
  /\ app2' = IF got = "messages"
             THEN Settle2(app2, r,
                          LoopHead2([app2.runs[r] EXCEPT
                                       !.remaining = [k \in 1..app2.len |-> k], !.attempt = 0],
                                    app2.retryCounts))
             ELSE Finally2(app2, r)
  /\ UNCHANGED <<portalVars, tok, work, auxVars>>

\* the MESSAGE_DELAY_MS timer fires: sendMessage is invoked
TimerFires2(r) ==
  /\ app2.runs[r].pc = "delay"
  /\ app2' = [app2 EXCEPT !.runs[r].pc = "send",
                          !.invoked = @ \cup {app2.runs[r].batch[app2.runs[r].idx]}]
  /\ UNCHANGED <<portalVars, tok, work, auxVars>>

\* sendMessage settles: on success the id is added to processedMessages; else
\* the message is pushed behind the remaining ones while the closure's retry
\* count is below MAX_RETRY_ATTEMPTS
SendSettles2(r, out) ==
  /\ app2.runs[r].pc = "send"
  /\ LET run == app2.runs[r]
         msg == run.batch[run.idx]
         run1 == IF out # "success" /\ run.cRetry[msg] < MAX_RETRY_ATTEMPTS_2
                 THEN [run EXCEPT !.remaining = Append(@, msg)] ELSE run
         a1 == IF out = "success"
               THEN [app2 EXCEPT !.processedMessages = @ \cup {msg}, !.objDirty = TRUE,
                                 !.delivered = @ \cup {msg}]
               ELSE app2
     IN app2' = Settle2(a1, r, ForItem2(run1, a1.retryCounts, run.idx + 1))
  /\ UNCHANGED <<portalVars, tok, work, auxVars>>

\* the delay between batches is over: the while condition is tested again
BatchDelayFires2(r) ==
  /\ app2.runs[r].pc = "batchdelay"
  /\ app2' = Settle2(app2, r, LoopHead2(app2.runs[r], app2.retryCounts))
  /\ UNCHANGED <<portalVars, tok, work, auxVars>>

\* updateDispatchStatus settles: on success the marker is set to completed and
\* start_dispatch to 2; then the finally block
FinalSettles2(r, out) ==
  /\ app2.runs[r].pc = "final"
  /\ app2' = IF out = "ok"
             THEN [Finally2(app2, r) EXCEPT !.status = "completed", !.start = "2"]
             ELSE Finally2(app2, r)
  /\ UNCHANGED <<portalVars, tok, work, auxVars>>

FetchResolve2(r) == \E got \in {"messages", "fail"} : FetchSettles2(r, got)

SendResolve2(r) == \E out \in {"success", "nosuccess", "throw"} : SendSettles2(r, out)

FinalResolve2(r) == \E out \in {"ok", "failed"} : FinalSettles2(r, out)

LoginResolve2(n) == \E out \in {"ok", "fail"} : LoginSettles2(out, n)

VerifyResolve2(n) == \E out \in {"valid", "invalid", "notok", "throw"} : VerifySettles2(out, n)

\* the page is opened with the dispatch link, with or without a stored session;
\* the user logs in, reloads and reopens the link, and leaves the Dispatch button
\* alone: every handleDispatch invocation is started by the page itself
InitPage ==
  /\ AppInit
  /\ startParam = "0"
  /\ calc = NoCall
  /\ tok = NoTok
  /\ work = NoWork
  /\ AuxIdle
  /\ \E s \in BOOLEAN : app2 = Loaded([NoApp2 EXCEPT !.len = PageListLen, !.session = s], "1")

NextPage ==
  \/ Load2
  \/ Commit2
  \/ Effects2(MaxRuns)
  \/ ClickLogin2
  \/ LoginResolve2(MaxRuns)
  \/ VerifyResolve2(MaxRuns)
  \/ \E r \in RunIds : FetchResolve2(r)
  \/ \E r \in RunIds : TimerFires2(r)
  \/ \E r \in RunIds : SendResolve2(r)
  \/ \E r \in RunIds : BatchDelayFires2(r)
  \/ \E r \in RunIds : FinalResolve2(r)

SpecPage == InitPage /\ [][NextPage]_vars

\* ---- one pass of handleDispatch of src/test2.js over lists of any length -------
\* A logged-in user opens the page without start_dispatch=1 and starts the
\* dispatch with the button; one invocation is followed to its end.
InitPass ==
  /\ AppInit
  /\ startParam = "0"
  /\ calc = NoCall
  /\ tok = NoTok
  /\ work = NoWork
  /\ AuxIdle
  /\ \E n \in 0..MaxListLen :
       app2 = [Loaded([NoApp2 EXCEPT !.len = n, !.session = TRUE], "2") EXCEPT !.effects = {}]

NextPass ==
  \/ ClickDispatch2(PassRuns)
  \/ \E r \in RunIds : FetchResolve2(r)
  \/ \E r \in RunIds : TimerFires2(r)
  \/ \E r \in RunIds : SendResolve2(r)
  \/ \E r \in RunIds : BatchDelayFires2(r)
  \/ \E r \in RunIds : FinalResolve2(r)

SpecPass == InitPass /\ [][NextPass]_vars

\* ---- addLog (src/test.js:40-45) ----------------------------------------------------
\* An entry is { timestamp, message, type }; message and type are stored as
\* given and never read by addLog, so an entry is represented by its timestamp,
\* the reading of a clock that advances with every call.

\* a variant of AddLogTo that writes the new entry after the kept ones
AddLogAtEnd(prev, entry) == Append(SliceTo(prev, LOG_KEPT), entry)

\* the updater passed to setLogs: [entry, ...prev.slice(0, 100)]
AddLogTo(prev, entry) == <<entry>> \o SliceTo(prev, LOG_KEPT)

InitLog == AppInit /\ startParam = "0" /\ calc = NoCall /\ ExtIdle

addLog ==
  /\ logs.clock < MaxLogCalls
  /\ logs' = [logs EXCEPT !.clock = @ + 1,
                          !.entries = AddLogTo(@, [timestamp |-> logs.clock + 1])]
  /\ UNCHANGED <<portalVars, tok, work, app2, fan, form>>

\* the page is loaded again: useState([])
LogRemount ==
  /\ logs.entries # <<>>
  /\ logs' = [logs EXCEPT !.entries = <<>>, !.mountedAt = logs.clock]
  /\ UNCHANGED <<portalVars, tok, work, app2, fan, form>>

NextLog == addLog \/ LogRemount

SpecLog == InitLog /\ [][NextLog]_vars

\* ---- processMessagesWithRetry (src/test3.js:4-64) -----------------------------------
\* sendMessageWithTokenRecovery is not part of the sources: a call of it is a
\* promise that is fulfilled or rejected once.  getMessageMetrics and
\* updateProgress are left out.

\* a variant of CurrentBatch that takes every remaining message
CurrentBatchWhole(rem) == rem

\* remainingMessages.slice(0, RATE_LIMIT.BATCH_SIZE)
CurrentBatch(rem) == SliceTo(rem, BATCH_SIZE_3)

\* the while condition and, when it holds, the slicing and the start of one
\* send per message of the batch
LoopHead3(f) ==
  IF f.remaining # <<>> /\ f.attempt < MAX_RETRY_ATTEMPTS_3
  THEN LET currentBatch == CurrentBatch(f.remaining)
       IN [f EXCEPT !.pc = "await", !.batch = currentBatch,
                    !.remaining = SubSeq(f.remaining, Len(currentBatch) + 1, Len(f.remaining)),
                    !.inflight = Range(currentBatch), !.fulfilled = {}, !.rejected = {},
                    !.calls = [i \in FanItems |->
                                 IF i \in Range(currentBatch) THEN @[i] + 1 ELSE @[i]]]
  ELSE [f EXCEPT !.pc = "done", !.batch = <<>>]

InitFan ==
  /\ AppInit /\ startParam = "0" /\ calc = NoCall
  /\ tok = NoTok /\ work = NoWork /\ app2 = NoApp2
  /\ logs = NoLogs /\ form = NoForm
  /\ \E n \in 0..MaxFanLen : fan = [NoFan EXCEPT !.messages = [k \in 1..n |-> k]]

\* the call: remainingMessages = [...messages], attempt = 0, the first pass
ProcessMessagesWithRetry ==
  /\ fan.pc = "idle"
  /\ fan' = LoopHead3([fan EXCEPT !.remaining = fan.messages])
  /\ UNCHANGED <<portalVars, tok, work, app2, logs, form>>

\* the send of message i settles
FanSendSettles(i, out) ==
  /\ fan.pc = "await"
  /\ i \in fan.inflight
  /\ fan' = [fan EXCEPT !.inflight = @ \ {i},
                        !.fulfilled = IF out = "fulfilled" THEN @ \cup {i} ELSE @,
                        !.rejected = IF out = "rejected" THEN @ \cup {i} ELSE @,
                        !.okEver = IF out = "fulfilled" THEN @ \cup {i} ELSE @]
  /\ UNCHANGED <<portalVars, tok, work, app2, logs, form>>

FanSendResolve == \E i \in FanItems, out \in {"fulfilled", "rejected"} : FanSendSettles(i, out)

\* Promise.allSettled has resolved: the outcomes are applied, the failed
\* messages are appended in batch order, attempt++, then the delay or the end
FanBatchSettles ==
  /\ fan.pc = "await"
  /\ fan.inflight = {}
  /\ LET failed == SelectSeq(fan.batch, LAMBDA m : m \in fan.rejected)
         f1 == [fan EXCEPT !.processedMessages = @ \cup fan.fulfilled,
                           !.retryCounts = [i \in FanItems |->
                                              IF i \in Range(fan.batch) THEN @[i] + 1 ELSE @[i]],
                           !.remaining = @ \o failed,
                           !.attempt = @ + 1]
     IN fan' = IF f1.remaining # <<>> THEN [f1 EXCEPT !.pc = "delay"] ELSE LoopHead3(f1)
  /\ UNCHANGED <<portalVars, tok, work, app2, logs, form>>

\* MESSAGE_DELAY_MS has elapsed: the next pass
FanDelayFires ==
  /\ fan.pc = "delay"
  /\ fan' = LoopHead3(fan)
  /\ UNCHANGED <<portalVars, tok, work, app2, logs, form>>

NextFan == ProcessMessagesWithRetry \/ FanSendResolve \/ FanBatchSettles \/ FanDelayFires

SpecFan == InitFan /\ [][NextFan]_vars

\* ---- LoginForm (src/test3.js:163-449, src/unnamed/part_000) -------------------------
\* The form with its localStorage entry kc_session.  The branch of the render
\* that is shown decides which button can be clicked: the TokenCallback page
\* when showCallback, the success page when tokensExposed, the Log Out page when
\* isLoggedIn, the login page otherwise.  The re-send of the stored data to
\* the WebView (280-315) writes nothing and is left out.
Remove(s, k) == SubSeq(s, 1, k - 1) \o SubSeq(s, k + 1, Len(s))

\* the page is loaded: isLoggedIn from localStorage, no request in flight
FormLoaded(f) ==
  [NoForm EXCEPT !.onPage = TRUE, !.session = f.session,
                 !.isLoggedIn = (f.session # "none"), !.loggedOut = f.loggedOut]

InitForm ==
  /\ AppInit /\ startParam = "0" /\ calc = NoCall
  /\ tok = NoTok /\ work = NoWork /\ app2 = NoApp2
  /\ logs = NoLogs /\ fan = NoFan
  /\ \E s \in {"none", "login"} : form = FormLoaded([NoForm EXCEPT !.session = s])

\* the page is loaded again; the requests of the page that is left are dropped
FormReload ==
  /\ form.onPage
  /\ form # FormLoaded(form)
  /\ form' = FormLoaded(form)
  /\ UNCHANGED <<portalVars, tok, work, app2, logs, fan>>

\* verifySession is called (on mount and every 300000 ms): with a stored
\* session it sends the request
VerifySession ==
  /\ form.onPage
  /\ form.session # "none"
  /\ Len(form.requests) < MaxVerifyInFlight
  /\ form' = [form EXCEPT !.requests = Append(@, form.session)]
  /\ UNCHANGED <<portalVars, tok, work, app2, logs, fan>>

\* the response of request k arrives: not ok; valid (with or without a
\* newToken); invalid; or the request or the parsing throws
FormVerifySettles(k, out) ==
  /\ k \in 1..Len(form.requests)
  /\ form' = [form EXCEPT
       !.requests = Remove(@, k),
       !.session = IF out \in {"invalid", "throw"} THEN "none"
                   ELSE IF out = "newToken" THEN "renewed" ELSE @,
       !.isLoggedIn = IF out \in {"invalid", "throw"} THEN FALSE ELSE @]
  /\ UNCHANGED <<portalVars, tok, work, app2, logs, fan>>

FormVerifyResolve ==
  \E k \in 1..MaxVerifyInFlight, out \in {"notok", "valid", "newToken", "invalid", "throw"} :
    FormVerifySettles(k, out)

\* the Log Out button
ClickLogOut ==
  /\ form.onPage
  /\ ~form.showCallback /\ ~form.tokensExposed /\ form.isLoggedIn
  /\ form' = [form EXCEPT !.session = "none", !.isLoggedIn = FALSE, !.showCallback = FALSE,
                          !.tokensExposed = FALSE, !.loggedOut = TRUE]
  /\ UNCHANGED <<portalVars, tok, work, app2, logs, fan>>

\* the login button: handleLogin up to await login()
ClickLoginForm ==
  /\ form.onPage
  /\ ~form.showCallback /\ ~form.tokensExposed /\ ~form.isLoggedIn
  /\ ~form.loading
  /\ form' = [form EXCEPT !.loading = TRUE, !.error = ""]
  /\ UNCHANGED <<portalVars, tok, work, app2, logs, fan>>

\* login() settles
FormLoginSettles(out) ==
  /\ form.loading
  /\ form' = IF out = "ok"
             THEN [form EXCEPT !.loading = FALSE, !.session = "login", !.isLoggedIn = TRUE,
                               !.showCallback = TRUE, !.loggedOut = FALSE]
             ELSE [form EXCEPT !.loading = FALSE,
                               !.error = "Failed to log in. Please try again."]
  /\ UNCHANGED <<portalVars, tok, work, app2, logs, fan>>

FormLoginResolve == \E out \in {"ok", "fail"} : FormLoginSettles(out)

\* onClose of the TokenCallback page
FormCallbackClose ==
  /\ form.showCallback
  /\ form' = [form EXCEPT !.showCallback = FALSE, !.tokensExposed = TRUE]
  /\ UNCHANGED <<portalVars, tok, work, app2, logs, fan>>

NextForm ==
  \/ FormReload
  \/ VerifySession
  \/ FormVerifyResolve
  \/ ClickLogOut
  \/ ClickLoginForm
  \/ FormLoginResolve
  \/ FormCallbackClose

SpecForm == InitForm /\ [][NextForm]_vars

\* ---- the claims ----------------------------------------------------------------
\* steps of invocation l: sendMessage is called for item i; a new inter-attempt
\* delay starts; the final (status 2) report is issued
SendStarts(l, i) ==
  /\ loops[l].pc = "delay"
  /\ loops'[l].pc = "send"
  /\ loops[l].batch[loops[l].idx] = i

DelayStarts(l) ==
  /\ loops'[l].pc = "delay"
  /\ \/ loops[l].pc # "delay"
     \/ loops'[l].idx # loops[l].idx
     \/ loops'[l].attempt # loops[l].attempt

FinalReportStarts(l) ==
  /\ loops[l].pc # "final"
  /\ loops'[l].pc = "final"
  /\ loops'[l].rep.status = 2

\* C1 (idempotence): once an item's id has been added to processedMessages for
\* the job, sendMessage is never called for that item again: not on a later
\* pass, not by a second invocation, not after a reload.
C1_NoSendAfterRecorded ==
  [][\A i \in recorded : \A l \in LoopIds : ~SendStarts(l, i)]_vars

\* C2 (re-entrancy guard): at most one handleDispatch loop is in progress for
\* the job at any time.
C2_AtMostOneLoop == Cardinality({l \in LoopIds : Active(loops[l])}) <= 1

\* C3 (cancellation stops new work): after cancel has been requested of a run,
\* that run makes no further sendMessage call.
C3_NoSendAfterCancel ==
  [][\A l \in LoopIds : \A i \in Items : loops[l].cancelled => ~SendStarts(l, i)]_vars

\* C4 (bounded retries): within one run no item is passed to sendMessage more
\* than MAX_RETRY_ATTEMPTS times.
C4_BoundedRetries ==
  \A l \in LoopIds : \A i \in Items : loops[l].sent[i] <= MAX_RETRY_ATTEMPTS

\* item i still awaits a send in invocation record L
Pending(L, i) ==
  \/ i \in Range(L.remaining)
  \/ L.pc \in {"delay", "send"} /\ \E k \in L.idx..Len(L.batch) : L.batch[k] = i

\* C5 (termination): in a run with no pause and no cancel, an item whose
\* MAX_RETRY_ATTEMPTS sends have all settled without being counted a success
\* is counted as failed and does not await another attempt.
C5_FailedAfterMaxAttempts ==
  \A l \in LoopIds : \A i \in Items :
    (/\ Active(loops[l])
     /\ ~loops[l].cancelled
     /\ ~loops[l].pausedSeen
     /\ loops[l].sent[i] >= MAX_RETRY_ATTEMPTS
     /\ loops[l].pc # "send"
     /\ i \notin recorded)
    => (~Pending(loops[l], i) /\ progress.failed >= 1)

\* C6 (counting invariant): success + failed never exceeds total.
C6_CountsWithinTotal == progress.success + progress.failed <= progress.total

\* C7 (completion is honest): when a run that was not cancelled marks the job
\* completed, success + failed = total.
C7_CompletedCountsAll ==
  [][\A l \in LoopIds :
       (FinalSettles(l, "ok") /\ ~loops[l].cancelled)
       => progress.success + progress.failed = progress.total]_vars

\* C8 (cancelled is not completed): a run of which cancel was requested issues
\* no status 2 report and does not mark the job completed.
C8_CancelledNeverCompletes ==
  [][\A l \in LoopIds :
       loops[l].cancelled => (~FinalReportStarts(l) /\ ~FinalSettles(l, "ok"))]_vars

\* C9 (pause suspends sending): while paused is set, no sendMessage call is made
\* and no new inter-attempt delay is started.
C9_PausedStartsNothing ==
  [][(paused /\ paused') =>
       \A l \in LoopIds : ~DelayStarts(l) /\ \A i \in Items : ~SendStarts(l, i)]_vars

C11_CompletedBlocksRestart ==
  [][sessionStatus = "completed" =>
       \A l \in LoopIds : \A i \in Items : ~SendStarts(l, i)]_vars

\* no invocation is in progress and the handlers on the page are those of the
\* current state
Quiescent ==
  /\ \A l \in LoopIds : ~Active(loops[l])
  /\ ~effectPending
  /\ ~objDirty
  /\ rendered = Snapshot

\* C12 (resumable, never stuck): after a run has ended with an error (validation
\* or final report failure) while some item is neither succeeded nor failed and
\* the job is not completed, a new dispatch request is accepted.
C12_ResumableAfterError ==
  (/\ Quiescent
   /\ error # ""
   /\ sessionStatus # "completed"
   /\ processedMessages # Items
   /\ progress.failed = 0)
  => ~Rejects(rendered)

\* C13 (empty input is a validation failure): when fetchDispatchBatch yields an
\* empty or missing list, the invocation ends with error set, has called
\* sendMessage zero times, sends no status report and stores no completion.
C13_EmptyInputFails ==
  [][\A l \in LoopIds :
       FetchSettles(l, "none") =>
         /\ error' # ""
         /\ ~Active(loops'[l])
         /\ loops[l].sent = NoCounts
         /\ sendCount' = sendCount
         /\ sessionStatus' = sessionStatus
         /\ startParam' = startParam
         /\ analytics' = analytics]_vars

C13_Witness ==
  /\ error = "Dispatch error: No messages available"
  /\ \A l \in LoopIds : ~Active(loops[l])
  /\ sendCount = 0
  /\ sessionStatus # "completed"

EveryItemTerminal ==
  \/ Cardinality(processedMessages) >= progress.total /\ progress.failed = 0
  \/ Cardinality(processedMessages) + progress.failed >= progress.total

\* C15 (completion predicate on the wire): every status report in flight
\* carries status 1 or 2, and status 2 exactly when every item has reached a
\* terminal outcome.
C15_StatusTwoIffTerminal ==
  \A l \in LoopIds :
    loops[l].pc \in {"sync", "final"} =>
      /\ loops[l].rep.status \in {1, 2}
      /\ (loops[l].rep.status = 2) <=> EveryItemTerminal

\* invocation l comes to its end in this step (the page is not reloaded)
RunEnds(l) ==
  /\ Active(loops[l])
  /\ ~Active(loops'[l])
  /\ ~Reload

\* C16 (cancellation persists partial progress): when a run of which cancel was
\* requested ends, the store holds a snapshot with the succeeded and failed
\* counts the run reached.
C16_CancelPersistsSnapshot ==
  [][\A l \in LoopIds :
       (RunEnds(l) /\ loops[l].cancelled /\ ~FetchSettles(l, "none")) =>
         analytics' = [written |-> TRUE, success |-> progress'.success,
                       failed |-> progress'.failed]]_vars

\* every sendMessage call invocation l has made so far returned success
AllSendsSucceeded(l) == progress.success = SumCounts(loops[l].sent)

\* C17 (all-success run): a run with no pause and no cancel whose sends all
\* succeed calls sendMessage exactly once per item, ends with success = N and
\* failed = 0 and ends on its final status report, which carries status 2.
C17_AllSuccessRun ==
  [][\A l \in LoopIds :
       (/\ RunEnds(l)
        /\ ~FetchSettles(l, "none")
        /\ ~loops[l].cancelled
        /\ ~loops[l].pausedSeen
        /\ AllSendsSucceeded(l))
       => /\ loops[l].pc = "final"
          /\ loops[l].rep.status = 2
          /\ loops[l].sent = [i \in Items |-> 1]
          /\ progress.success = NumItems
          /\ progress.failed = 0]_vars

\* C18 (rate-limit accounting): a send that fails with the rate-limit signal
\* (HTTP 429) increments rateLimited by exactly one and the item is retried.
C18_RateLimitCounted ==
  [][\A l \in LoopIds :
       SendSettles(l, "rateLimited") =>
         /\ progress'.rateLimited = progress.rateLimited + 1
         /\ Pending(loops'[l], loops[l].batch[loops[l].idx])]_vars

\* C19 (backoff bounds): for an attempt index a >= 0, calculateDelay(a) is
\* min(BASE_DELAY_MS * 2^a, MAX_RETRY_DELAY_MS) with exponential backoff and
\* BASE_DELAY_MS without; it never exceeds MAX_RETRY_DELAY_MS and never exceeds
\* calculateDelay(a + 1).
C19_BackoffBounds ==
  calc.called =>
    /\ calc.delay = IF calc.exponential
                    THEN Min(BASE_DELAY_MS * Pow2(calc.of), MAX_RETRY_DELAY_MS)
                    ELSE BASE_DELAY_MS
    /\ calc.delay <= MAX_RETRY_DELAY_MS
    /\ calc.delay <= CalculateDelayWith(calc.exponential, calc.of + 1)

C19_Witness ==
  /\ calc.called
  /\ calc.exponential
  /\ calc.of = 5
  /\ calc.delay = MAX_RETRY_DELAY_MS

\* C20 (delay actually waited): the delay the loop waits before an attempt of an
\* item is calculateDelay(k), k the number of prior attempts of the item in the
\* run, and is never below BASE_DELAY_MS.
C20_DelayOfPriorAttempts ==
  \A l \in LoopIds :
    loops[l].pc = "delay" =>
      /\ loops[l].delay = calculateDelay(loops[l].sent[loops[l].batch[loops[l].idx]])
      /\ loops[l].delay >= BASE_DELAY_MS

\* C21: the message delivered to the Flutter channel carries expiresIn equal to
\* the login response's expiresIn in seconds, or 3600 when the response has none,
\* with the response's accessToken and its refreshToken or the empty string.
C21_TokenMessageFormat ==
  \A k \in 1..Len(tok.posted) :
    /\ tok.posted[k].data.expiresIn =
         (IF tok.tokens.expiresIn = 0 THEN DEFAULT_EXPIRES_IN ELSE tok.tokens.expiresIn)
    /\ tok.posted[k].data.accessToken = tok.tokens.accessToken
    /\ tok.posted[k].data.refreshToken = tok.tokens.refreshToken

\* C22: with no pause and no cancel, every item of the list is eventually
\* attempted at least once, whatever the outcomes of the other items.
C22_NoStarvation == <>(work.tried = 1..work.total)

\* a step in which the send of item i by invocation l settles without success
SendFails(l, i) ==
  /\ loops[l].pc = "send"
  /\ loops[l].batch[loops[l].idx] = i
  /\ loops'[l].pc # "send"
  /\ progress'.success = progress.success

\* item i is the first of the work invocation l has left: the head of
\* remainingMessages, or of the batch just sliced from it
AtFront(L, i) ==
  \/ L.remaining # <<>> /\ L.remaining[1] = i
  \/ L.pc = "delay" /\ L.idx = 1 /\ L.batch[1] = i

\* C23: an item whose attempt failed with fewer than maxAttempts attempts is
\* re-enqueued at the front of the remaining work (unless the run is over).
C23_FrontOfQueueRetry ==
  [][\A l \in LoopIds : \A i \in Items :
       (SendFails(l, i) /\ loops[l].sent[i] < MAX_RETRY_ATTEMPTS /\ loops'[l].pc # "idle")
       => AtFront(loops'[l], i)]_vars

\* invocation l is suspended in the pause wait and handleCancel has been called
CancelledInPauseWait(l) == loops[l].pc = "pausewait" /\ loops[l].waitCancelled

\* C24: a run suspended in the pause wait when handleCancel is called leaves the
\* wait eventually and terminates without invoking sendMessage again.
C24_CancelEndsPausedRun ==
  /\ \A l \in LoopIds : CancelledInPauseWait(l) ~> (loops[l].pc = "idle")
  /\ [][\A l \in LoopIds :
          CancelledInPauseWait(l) => loops'[l].pc \in {"pausewait", "idle"}]_vars

\* a cancelled run in the pause wait whose next interval tick resolves the wait
C24_Witness ==
  \E l \in LoopIds : CancelledInPauseWait(l) /\ ctrlAborted /\ loops[l].remaining # <<>>

C26_SyncFailureNotFatal ==
  [][\A l \in LoopIds :
       SyncSettles(l, "failed") =>
         /\ Active(loops'[l])
         /\ error' = error
         /\ progress' = progress
         /\ processedMessages' = processedMessages
         /\ sessionStatus' = sessionStatus
         /\ loops'[l].sent = loops[l].sent
         /\ Range(loops'[l].remaining) \cup Range(loops'[l].batch) = Range(loops[l].remaining)
         /\ \A i \in Items :
              retryCounts'[i] - retryCounts[i] = loops'[l].batches[i] - loops[l].batches[i]
         /\ loops[l].remaining = <<>> => loops'[l].pc = "final"
         /\ (loops[l].remaining # <<>> /\ ~loops[l].cPaused) => loops'[l].pc = "delay"]_vars

\* a run whose periodic report failed is attempting an item it had left
C26_Witness ==
  \E l \in LoopIds :
    /\ loops[l].syncFailed
    /\ loops[l].pc = "send"
    /\ loops[l].attempt >= 1
    /\ error = ""

\* a step in which invocation l issues its periodic status update after a batch
SyncStarts(l) == loops[l].pc # "sync" /\ loops'[l].pc = "sync"

\* a step in which invocation l goes from a batch to the next loop test without
\* a periodic status update
BatchEndsWithoutSync(l) ==
  /\ loops[l].pc \in {"delay", "send"}
  /\ Active(loops'[l])
  /\ loops'[l].attempt = loops[l].attempt + 1

\* C27: the periodic status update is invoked after a batch exactly when the
\* number of batches processed so far, counting that batch, is a multiple of 3.
C27_SyncCadence ==
  [][\A l \in LoopIds :
       /\ SyncStarts(l) => (loops'[l].attempt + 1) % 3 = 0
       /\ (BatchEndsWithoutSync(l) /\ ~ctrlAborted) => (loops[l].attempt + 1) % 3 # 0]_vars

\* C28: the job is marked completed only after sendMessage has been invoked at
\* least once for every item of the list.
C28_CompletionCoversList == app2.status = "completed" => app2.invoked = 1..app2.len

\* a step in which invocation r of the page calls sendMessage for item i
Send2Starts(r, i) ==
  /\ app2.runs[r].pc = "delay"
  /\ app2'.runs[r].pc = "send"
  /\ app2.runs[r].batch[app2.runs[r].idx] = i

\* C29: no item that was already sent successfully is sent again by a
\* re-dispatch of the page.
C29_NoResendByRedispatch ==
  [][\A r \in RunIds : \A i \in Items2 : Send2Starts(r, i) => i \notin app2.delivered]_vars

\* C30: once the marker is "completed" nothing overwrites it with "in_progress".
C30_MarkerMonotone ==
  [][app2.status = "completed" => app2'.status # "in_progress"]_vars

\* C32: every status report in flight (the periodic one or the final one) carries
\* dispatch_count equal to the number of items that succeeded so far in the run
\* and attempts equal to the sum of the per-item attempt counts.
C32_ReportsCurrentState ==
  \A l \in LoopIds :
    loops[l].pc \in {"sync", "final"} =>
      /\ loops[l].rep.dispatch_count = Cardinality(loops[l].succeeded)
      /\ loops[l].rep.attempts = SumCounts(retryCounts)

\* C33: the log holds at most 101 entries, newest first in insertion order, and
\* they are the most recent ones: of the entries added since the mount only
\* the oldest ones are missing.
C33_BoundedLog ==
  LET n == Len(logs.entries)
  IN /\ n = Min(logs.clock - logs.mountedAt, LOG_KEPT + 1)
     /\ \A k \in 1..n : logs.entries[k].timestamp = logs.clock - k + 1

\* a full log has received one more entry
C33_Witness ==
  /\ Len(logs.entries) = LOG_KEPT + 1
  /\ logs.clock - logs.mountedAt > LOG_KEPT + 1

\* a step that starts sends of the run
FanSendsStart == \E i \in FanItems : fan'.calls[i] > fan.calls[i]

\* C31: at most BATCH_SIZE sends of a run are in flight, and the sends of a
\* batch are started only when no earlier send is in flight and the outcomes of
\* all earlier sends are in the processed set and in the attempt counts.
C31_BoundedFanOut ==
  [][/\ Cardinality(fan'.inflight) <= BATCH_SIZE_3
     /\ FanSendsStart =>
          /\ fan.inflight = {}
          /\ fan.okEver = fan.processedMessages
          /\ fan.retryCounts = fan.calls]_vars

\* the sends of a second batch are in flight, after a first batch with a failure
C31_Witness ==
  /\ fan.attempt = 1
  /\ fan.inflight # {}
  /\ fan.okEver # {}
  /\ \E i \in FanItems : fan.calls[i] = 2

\* C34: a run started by the mount effect is not aborted by the cleanup of that
\* effect: with no cancel and no unmount, the signal of the controller is not
\* aborted while a run is executing.
C34_AutoStartNotAborted ==
  (\E l \in LoopIds : Active(loops[l])) => ~ctrlAborted

\* C35: while an invocation of handleDispatch is executing (past its guard and
\* before its finally block) the dispatching flag is true.
C35_RunningFlagMatchesLoop ==
  (\E l \in LoopIds : Active(loops[l])) => dispatching

\* C36: progress.current = progress.success + progress.failed in every state,
\* and progress.current <= progress.total once the total of the run is set.
C36_ProgressConsistent ==
  /\ progress.current = progress.success + progress.failed
  /\ (\E l \in LoopIds : loops[l].pc \notin {"idle", "fetch"}) =>
       progress.current <= progress.total

\* C37: for one login the token message is posted to the native side at most
\* once, over all channels and all runs of the effect.
C37_PostedAtMostOnce == Len(tok.posted) <= 1

\* C38: a retry chain makes at most 10 attempts, makes no attempt after the
\* one on which a channel accepted the message, and onClose is eventually
\* invoked for it, whether the message was accepted or not.
C38_HandOffTerminates ==
  /\ [][\A c \in ChainIds :
          /\ tok'.chains[c].attempt <= TOKEN_MAX_ATTEMPTS
          /\ Len(tok'.posted) > Len(tok.posted) /\ tok'.chains[c] # tok.chains[c]
               => tok'.chains[c].pc = "close"
          /\ tok.chains[c].pc \in {"close", "done"}
               => tok'.chains[c].attempt = tok.chains[c].attempt]_vars
  /\ \A c \in ChainIds : tok.chains[c].pc # "none" ~> tok.chains[c].pc = "done"

\* onClose has been invoked for a chain that found no channel in 10 attempts
C38_Witness ==
  \E c \in ChainIds :
    /\ tok.chains[c].pc = "done"
    /\ tok.chains[c].attempt = TOKEN_MAX_ATTEMPTS
    /\ tok.posted = <<>>

\* C39: after Log Out, kc_session stays absent from localStorage until the next
\* successful login.
C39_LogoutIsFinal == form.loggedOut => form.session = "none"

=============================================================================
